---------------------------- MODULE Spec2Model ----------------------------
(* Model of src/Application.cpp: the shader-source splitter (ParseShader),  *)
(* the compile/link sequence (CompileShader, CreateShader), the error-queue *)
(* helpers (GLClearError, GLCheckError) and main, which drives them.        *)
(*                                                                          *)
(* Text is a sequence of symbols.  The three substrings ParseShader looks   *)
(* for ("#shader", "vertex", "fragment") are one symbol each, any other     *)
(* run of characters is another symbol, and "\n" is the line terminator.    *)
EXTENDS Integers, Sequences, FiniteSets, TLC

\* ------------------------------------------------------------------ bounds
MaxLines == 4
MaxFrames == 2

\* ------------------------------------------------------------------- text
NL == "\n"

\* The lines the input file is built from.
LineSet ==
    { <<"#shader", " ", "vertex">>,
      <<"#shader", " ", "fragment">>,
      <<"#shader", " ", "geometry">>,
      <<"fragment", "#shader", "vertex">>,
      <<"a">>,
      <<"b">>,
      <<"vertex">>,
      << >> }

RECURSIVE SeqsUpTo(_, _)
SeqsUpTo(S, n) ==
    IF n = 0 THEN { << >> }
    ELSE LET shorter == SeqsUpTo(S, n - 1)
         IN  shorter \cup { Append(s, x) : s \in { t \in shorter : Len(t) = n - 1 }, x \in S }

RECURSIVE JoinLines(_, _)
JoinLines(ls, lastNL) ==
    IF ls = << >> THEN << >>
    ELSE IF Len(ls) = 1 THEN (IF lastNL THEN Append(ls[1], NL) ELSE ls[1])
    ELSE Append(ls[1], NL) \o JoinLines(Tail(ls), lastNL)

\* The contents res/shaders/Basic.shader may have: up to MaxLines lines, the
\* last one with or without its terminator.
Files == { JoinLines(ls, nl) : ls \in SeqsUpTo(LineSet, MaxLines), nl \in BOOLEAN }

\* line.find(needle) != std::string::npos
Contains(line, needle) ==
    \E i \in 1..(Len(line) - Len(needle) + 1) :
        SubSeq(line, i, i + Len(needle) - 1) = needle

\* ---------------------------------------------------------- ParseShader
NONE == -1
VERTEX == 0
FRAGMENT == 1

\* std::getline(stream, line): the characters up to the next "\n" (or to the
\* end of the stream), the terminator consumed.  ok is false when the stream
\* could not be opened or nothing is left to extract.
getline(opened, s) ==
    IF ~opened \/ s = << >> THEN [ok |-> FALSE, line |-> << >>, rest |-> s]
    ELSE IF \E i \in 1..Len(s) : s[i] = NL
         THEN LET i == CHOOSE k \in 1..Len(s) :
                           s[k] = NL /\ \A j \in 1..(k - 1) : s[j] # NL
              IN  [ok |-> TRUE, line |-> SubSeq(s, 1, i - 1), rest |-> SubSeq(s, i + 1, Len(s))]
         ELSE [ok |-> TRUE, line |-> s, rest |-> << >>]

\* A variant of the loop body without the `else` before the append.
ParseLineNoElse(st, ln) ==
    LET t == IF Contains(ln, <<"#shader">>)
             THEN IF Contains(ln, <<"vertex">>) THEN VERTEX
                  ELSE IF Contains(ln, <<"fragment">>) THEN FRAGMENT
                  ELSE st.type
             ELSE st.type
    IN  IF t # NONE
        THEN [type |-> t, ss |-> [st.ss EXCEPT ![t] = @ \o ln \o <<NL>>]]
        ELSE [type |-> t, ss |-> st.ss]

\* A variant of the loop body that appends the line without std::endl.
ParseLineNoEndl(st, ln) ==
    IF Contains(ln, <<"#shader">>)
    THEN IF Contains(ln, <<"vertex">>) THEN [st EXCEPT !.type = VERTEX]
         ELSE IF Contains(ln, <<"fragment">>) THEN [st EXCEPT !.type = FRAGMENT]
         ELSE st
    ELSE IF st.type # NONE
         THEN [st EXCEPT !.ss[st.type] = @ \o ln]
         ELSE st

\* A variant of the loop body where an unrecognized "#shader" line closes the
\* current section.
ParseLineReset(st, ln) ==
    IF Contains(ln, <<"#shader">>)
    THEN IF Contains(ln, <<"vertex">>) THEN [st EXCEPT !.type = VERTEX]
         ELSE IF Contains(ln, <<"fragment">>) THEN [st EXCEPT !.type = FRAGMENT]
         ELSE [st EXCEPT !.type = NONE]
    ELSE IF st.type # NONE
         THEN [st EXCEPT !.ss[st.type] = @ \o ln \o <<NL>>]
         ELSE st

\* The body of the while loop: st = [type, ss], ln the line just read.
ParseLine(st, ln) ==
    IF Contains(ln, <<"#shader">>)
    THEN IF Contains(ln, <<"vertex">>) THEN [st EXCEPT !.type = VERTEX]
         ELSE IF Contains(ln, <<"fragment">>) THEN [st EXCEPT !.type = FRAGMENT]
         ELSE st
    ELSE IF st.type # NONE
         THEN [st EXCEPT !.ss[st.type] = @ \o ln \o <<NL>>]
         ELSE st

\* The state ParseShader starts its loop in.
ParseStart == [type |-> NONE, ss |-> [i \in {VERTEX, FRAGMENT} |-> << >>]]

RECURSIVE ParseLoop(_, _, _)
ParseLoop(opened, s, st) ==
    LET g == getline(opened, s)
    IN  IF g.ok THEN ParseLoop(opened, g.rest, ParseLine(st, g.line)) ELSE st

\* ParseShader as a function of the file: the pair it returns.
ParseShader(opened, text) ==
    LET st == ParseLoop(opened, text, ParseStart)
    IN  [VertexSource |-> st.ss[VERTEX], FragmentSource |-> st.ss[FRAGMENT]]


\* ------------------------------------------------------------- GL driver
\* Enumerants of <GL/glew.h>.
GL_NO_ERROR == 0
GL_INVALID_ENUM == 1280
GL_INVALID_VALUE == 1281
GL_INVALID_OPERATION == 1282
GL_UNSIGNED_BYTE == 5121
GL_UNSIGNED_SHORT == 5123
GL_INT == 5124
GL_UNSIGNED_INT == 5125
GL_FRAGMENT_SHADER == 35632
GL_VERTEX_SHADER == 35633

\* The driver's state once the context is current: live shader objects and
\* program objects by name, the program in use, the recorded error flags, and
\* the object-management commands received so far.
GLInit ==
    [shaders  |-> << >>,
     programs |-> << >>,
     current  |-> 0,
     errors   |-> {},
     log      |-> << >>]

Cmd(op, a, b) == [op |-> op, a |-> a, b |-> b]

Logged(g, op, a, b) == [g EXCEPT !.log = Append(@, Cmd(op, a, b))]

Raise(g, e) == [g EXCEPT !.errors = @ \cup {e}]

Names(g) == DOMAIN g.shaders \cup DOMAIN g.programs

\* Shader and program objects share one name space; a fresh object gets the
\* lowest name not in use, so the name of a deleted object is handed out again.
GenName(g) == CHOOSE n \in 1..(Cardinality(Names(g)) + 1) :
                  n \notin Names(g) /\ \A m \in 1..(n - 1) : m \in Names(g)

Extend(f, k, v) == [x \in DOMAIN f \cup {k} |-> IF x = k THEN v ELSE f[x]]

Remove(f, k) == [x \in DOMAIN f \ {k} |-> f[x]]

Attached(g, id) == \E p \in DOMAIN g.programs : id \in g.programs[p].attached

glCreateProgram(g) ==
    LET n == GenName(g)
    IN  [gl  |-> Logged([g EXCEPT !.programs = Extend(@, n, [attached |-> {}, linked |-> FALSE])],
                        "glCreateProgram", 0, n),
         ret |-> n]

glCreateShader(g, type) ==
    LET n == GenName(g)
    IN  [gl  |-> Logged([g EXCEPT !.shaders = Extend(@, n, [type |-> type, compiled |-> FALSE, flagged |-> FALSE])],
                        "glCreateShader", type, n),
         ret |-> n]

\* glShaderSource and glCompileShader; ok is the driver's verdict on the source.
glCompileShader(g, id, ok) ==
    Logged([g EXCEPT !.shaders[id].compiled = ok], "glCompileShader", id, 0)

\* glGetShaderiv(id, GL_COMPILE_STATUS, &result): 1 for a compiled shader, else 0.
glGetShaderiv(g, id) ==
    LET status == IF g.shaders[id].compiled THEN 1 ELSE 0
    IN  [gl |-> Logged(g, "glGetShaderiv", id, status), ret |-> status]

\* A variant of glDeleteShader that the caller forgot to issue.
glDeleteShaderSkipped(g, id) == g

\* 0 is silently ignored; an attached shader is only flagged for deletion.
glDeleteShader(g, id) ==
    LET h == Logged(g, "glDeleteShader", id, 0)
    IN  IF id = 0 THEN h
        ELSE IF id \notin DOMAIN g.shaders THEN Raise(h, GL_INVALID_VALUE)
        ELSE IF Attached(g, id) THEN [h EXCEPT !.shaders[id].flagged = TRUE]
        ELSE [h EXCEPT !.shaders = Remove(@, id)]

glAttachShader(g, program, shader) ==
    LET h == Logged(g, "glAttachShader", program, shader)
    IN  IF program \notin DOMAIN g.programs \/ shader \notin DOMAIN g.shaders
        THEN Raise(h, GL_INVALID_VALUE)
        ELSE IF shader \in g.programs[program].attached
        THEN Raise(h, GL_INVALID_OPERATION)
        ELSE [h EXCEPT !.programs[program].attached = @ \cup {shader}]

\* ok is the driver's verdict on the attached stages.
glLinkProgram(g, program, ok) ==
    Logged([g EXCEPT !.programs[program].linked = ok], "glLinkProgram", program, 0)

glValidateProgram(g, program) == Logged(g, "glValidateProgram", program, 0)

glUseProgram(g, program) ==
    LET h == Logged(g, "glUseProgram", program, 0)
    IN  IF program = 0 THEN [h EXCEPT !.current = 0]
        ELSE IF program \notin DOMAIN g.programs THEN Raise(h, GL_INVALID_VALUE)
        ELSE IF ~g.programs[program].linked THEN Raise(h, GL_INVALID_OPERATION)
        ELSE [h EXCEPT !.current = program]

\* Deleting the program detaches its shaders; those flagged go with it.
glDeleteProgram(g, program) ==
    LET h == Logged(g, "glDeleteProgram", program, 0)
    IN  IF program = 0 THEN h
        ELSE IF program \notin DOMAIN g.programs THEN Raise(h, GL_INVALID_VALUE)
        ELSE LET gone == { s \in g.programs[program].attached : g.shaders[s].flagged }
             IN  [h EXCEPT !.programs = Remove(@, program),
                           !.shaders  = [x \in DOMAIN g.shaders \ gone |-> g.shaders[x]],
                           !.current  = IF @ = program THEN 0 ELSE @]

\* The index type must be one of the three unsigned types.
glDrawElements(g, type) ==
    IF type \notin {GL_UNSIGNED_BYTE, GL_UNSIGNED_SHORT, GL_UNSIGNED_INT}
    THEN Raise(g, GL_INVALID_ENUM)
    ELSE g

\* std::hex formatting of an unsigned value, one symbol per digit.
HexDigits == <<"0", "1", "2", "3", "4", "5", "6", "7", "8", "9", "a", "b", "c", "d", "e", "f">>

RECURSIVE Hex(_)
Hex(n) == IF n < 16 THEN <<HexDigits[n + 1]>>
          ELSE Hex(n \div 16) \o <<HexDigits[(n % 16) + 1]>>


\* glGetError: no flag set gives GL_NO_ERROR; otherwise one of the recorded
\* flags, in an order the driver chooses, and that flag is reset.  A variant
\* first: the flag is returned and stays set.
glGetErrorSticky(g) ==
    IF g.errors = {} THEN { [ret |-> GL_NO_ERROR, gl |-> g] }
    ELSE { [ret |-> e, gl |-> g] : e \in g.errors }

glGetError(g) ==
    IF g.errors = {} THEN { [ret |-> GL_NO_ERROR, gl |-> g] }
    ELSE { [ret |-> e, gl |-> [g EXCEPT !.errors = @ \ {e}]] : e \in g.errors }

\* -------------------------------------------------------- CompileShader
\* The info logs the driver gives for a source it rejects.
InfoLogs == { <<"0(1) : error C0000: syntax error">> }

StageName(type) == IF type = GL_VERTEX_SHADER THEN "vertex" ELSE "fragment"

\* A variant that returns the id of the shader it has just deleted.
CompileShaderKeepsId(g, out, type, source, ok, infoLog) ==
    LET c      == glCreateShader(g, type)
        id     == c.ret
        g1     == Logged(c.gl, "glShaderSource", id, source)
        g2     == glCompileShader(g1, id, ok)
        q      == glGetShaderiv(g2, id)
        result == q.ret
    IN  IF result = 0
        THEN [gl     |-> glDeleteShader(q.gl, id),
              stdout |-> out \o << <<"Failed to compile ", StageName(type), " shader.">>, infoLog >>,
              ret    |-> id]
        ELSE [gl |-> q.gl, stdout |-> out, ret |-> id]

\* CompileShader(type, source) on driver state g with standard output out; ok
\* and infoLog are the driver's answers.  Gives the driver state, the output
\* and the returned id.
CompileShader(g, out, type, source, ok, infoLog) ==
    LET c      == glCreateShader(g, type)
        id     == c.ret
        g1     == Logged(c.gl, "glShaderSource", id, source)
        g2     == glCompileShader(g1, id, ok)
        q      == glGetShaderiv(g2, id)
        result == q.ret
    IN  IF result = 0
        THEN [gl     |-> glDeleteShader(q.gl, id),
              stdout |-> out \o << <<"Failed to compile ", StageName(type), " shader.">>, infoLog >>,
              ret    |-> 0]
        ELSE [gl |-> q.gl, stdout |-> out, ret |-> id]

\* --------------------------------------------------------- CreateShader
\* A variant that gives up when a stage did not compile.
AttachLinkValidateStrict(g, program, vs, fs, ok) ==
    IF vs = 0 \/ fs = 0 THEN g
    ELSE glValidateProgram(
             glLinkProgram(glAttachShader(glAttachShader(g, program, vs), program, fs), program, ok),
             program)

\* glAttachShader twice, glLinkProgram, glValidateProgram.
AttachLinkValidate(g, program, vs, fs, ok) ==
    glValidateProgram(
        glLinkProgram(glAttachShader(glAttachShader(g, program, vs), program, fs), program, ok),
        program)

\* The two glDeleteShader calls before the return.
DeleteStages(g, vs, fs) == glDeleteShader(glDeleteShader(g, vs), fs)

\* ----------------------------------------------------------------- main
\* Variants of the source check: only a file with no section at all is
\* rejected; nothing is rejected.
SourcesRejectedBoth(src) == src.VertexSource = << >> /\ src.FragmentSource = << >>

SourcesRejectedNever(src) == FALSE

\* source.VertexSource.empty() || source.FragmentSource.empty()
SourcesRejected(src) == src.VertexSource = << >> \/ src.FragmentSource = << >>

\* The index type main passes to glDrawElements.
DrawIndexType == GL_INT

\* The line GLCheckError prints for an error code.
ErrorLine(error) == <<"[OpenGL Error] (0x">> \o Hex(error) \o <<")">>

VARIABLES
    pc,           \* where main is
    exitCode,     \* main's return value once pc = "exited"
    stdout,       \* the lines written to std::cout
    opened,       \* whether the ifstream opened the file
    fileText,     \* the file's contents
    stream,       \* what is left to read of it
    line,         \* ParseShader: the line last read
    type,         \* ParseShader: the current section
    ss,           \* ParseShader: the two string streams
    source,       \* main: what ParseShader returned
    gl,           \* the driver
    program,      \* CreateShader: the program id
    vs,           \* CreateShader: the vertex stage id
    fs,           \* CreateShader: the fragment stage id
    shader,       \* main: what CreateShader returned
    shouldClose,  \* the window's close flag
    frames,       \* frames rendered
    entry         \* the error flags and the output length when the running
                  \* GLClearError or GLCheckError call was entered

vars == <<pc, exitCode, stdout, opened, fileText, stream, line, type, ss, source,
          gl, program, vs, fs, shader, shouldClose, frames, entry>>

parseVars == <<opened, fileText, stream, line, type, ss, source>>
shaderVars == <<program, vs, fs, shader>>
loopVars == <<shouldClose, frames, entry>>

Enter(g, out) == [pending |-> g.errors, out |-> Len(out)]

Init ==
    /\ pc = "glfwInit"
    /\ exitCode = 0
    /\ stdout = << >>
    /\ opened = FALSE
    /\ fileText = << >>
    /\ stream = << >>
    /\ line = << >>
    /\ type = NONE
    /\ ss = ParseStart.ss
    /\ source = [VertexSource |-> << >>, FragmentSource |-> << >>]
    /\ gl = GLInit
    /\ program = 0
    /\ vs = 0
    /\ fs = 0
    /\ shader = 0
    /\ shouldClose = FALSE
    /\ frames = 0
    /\ entry = Enter(GLInit, << >>)

\* if (!glfwInit()) return -1;
GlfwInit ==
    /\ pc = "glfwInit"
    /\ \E ok \in BOOLEAN :
          IF ok THEN pc' = "glfwCreateWindow" /\ exitCode' = exitCode
          ELSE pc' = "exited" /\ exitCode' = -1
    /\ UNCHANGED <<stdout, gl>>
    /\ UNCHANGED <<parseVars, shaderVars, loopVars>>

\* window = glfwCreateWindow(...); if (!window) { glfwTerminate(); return -1; }
GlfwCreateWindow ==
    /\ pc = "glfwCreateWindow"
    /\ \E ok \in BOOLEAN :
          IF ok THEN pc' = "setup" /\ exitCode' = exitCode
          ELSE pc' = "exited" /\ exitCode' = -1
    /\ UNCHANGED <<stdout, gl>>
    /\ UNCHANGED <<parseVars, shaderVars, loopVars>>

\* Context made current, glewInit, the version line, the vertex and index
\* buffers.  When glewInit fails the buffer entry points are not loaded and
\* the first call through one ends the process abnormally.
Setup ==
    /\ pc = "setup"
    /\ \E glewOk \in BOOLEAN :
          IF glewOk
          THEN /\ stdout' = Append(stdout, <<"GL_VERSION">>)
               /\ pc' = "ParseShader"
          ELSE /\ stdout' = stdout \o << <<"GLEW INIT NOT OK">>, <<"GL_VERSION">> >>
               /\ pc' = "crashed"
    /\ gl' = GLInit
    /\ UNCHANGED exitCode
    /\ UNCHANGED <<parseVars, shaderVars, loopVars>>

\* ParseShader up to its loop: the stream is opened on the file, type is NONE,
\* both string streams are empty.
ParseOpen ==
    /\ pc = "ParseShader"
    /\ \E ok \in BOOLEAN :
          /\ opened' = ok
          /\ IF ok THEN fileText' \in Files ELSE fileText' = << >>
    /\ stream' = fileText'
    /\ type' = ParseStart.type
    /\ ss' = ParseStart.ss
    /\ pc' = "getline"
    /\ UNCHANGED <<line, source, exitCode, stdout, gl>>
    /\ UNCHANGED <<shaderVars, loopVars>>

\* One test of the while condition: a line was read and the body runs on it,
\* or getline fails and ParseShader returns the two strings.
ParseGetline ==
    /\ pc = "getline"
    /\ LET g == getline(opened, stream)
       IN  IF g.ok
           THEN LET st == ParseLine([type |-> type, ss |-> ss], g.line)
                IN  /\ line' = g.line
                    /\ stream' = g.rest
                    /\ type' = st.type
                    /\ ss' = st.ss
                    /\ UNCHANGED <<pc, source>>
           ELSE /\ source' = [VertexSource |-> ss[VERTEX], FragmentSource |-> ss[FRAGMENT]]
                /\ pc' = "check"
                /\ UNCHANGED <<line, stream, type, ss>>
    /\ UNCHANGED <<opened, fileText, exitCode, stdout, gl>>
    /\ UNCHANGED <<shaderVars, loopVars>>

\* if (source.VertexSource.empty() || source.FragmentSource.empty()) return -1;
CheckSources ==
    /\ pc = "check"
    /\ IF SourcesRejected(source)
       THEN pc' = "exited" /\ exitCode' = -1
       ELSE pc' = "glCreateProgram" /\ exitCode' = exitCode
    /\ UNCHANGED <<stdout, gl>>
    /\ UNCHANGED <<parseVars, shaderVars, loopVars>>

\* CreateShader: unsigned int program = glCreateProgram();
CreateProgram ==
    /\ pc = "glCreateProgram"
    /\ LET c == glCreateProgram(gl)
       IN  gl' = c.gl /\ program' = c.ret
    /\ pc' = "CompileVertex"
    /\ UNCHANGED <<vs, fs, shader, exitCode, stdout>>
    /\ UNCHANGED <<parseVars, loopVars>>

\* CreateShader: unsigned int vs = CompileShader(GL_VERTEX_SHADER, vertexShader);
CompileVertex ==
    /\ pc = "CompileVertex"
    /\ \E ok \in BOOLEAN, infoLog \in InfoLogs :
          LET r == CompileShader(gl, stdout, GL_VERTEX_SHADER, source.VertexSource, ok, infoLog)
          IN  gl' = r.gl /\ stdout' = r.stdout /\ vs' = r.ret
    /\ pc' = "CompileFragment"
    /\ UNCHANGED <<program, fs, shader, exitCode>>
    /\ UNCHANGED <<parseVars, loopVars>>

\* CreateShader: unsigned int fs = CompileShader(GL_FRAGMENT_SHADER, fragmentShader);
CompileFragment ==
    /\ pc = "CompileFragment"
    /\ \E ok \in BOOLEAN, infoLog \in InfoLogs :
          LET r == CompileShader(gl, stdout, GL_FRAGMENT_SHADER, source.FragmentSource, ok, infoLog)
          IN  gl' = r.gl /\ stdout' = r.stdout /\ fs' = r.ret
    /\ pc' = "link"
    /\ UNCHANGED <<program, vs, shader, exitCode>>
    /\ UNCHANGED <<parseVars, loopVars>>

\* CreateShader: attach both stages, link, validate.
Link ==
    /\ pc = "link"
    /\ \E ok \in BOOLEAN : gl' = AttachLinkValidate(gl, program, vs, fs, ok)
    /\ pc' = "delete"
    /\ UNCHANGED <<exitCode, stdout>>
    /\ UNCHANGED <<parseVars, shaderVars, loopVars>>

\* CreateShader: delete both stages and return program, which main keeps as
\* shader.
DeleteAndReturn ==
    /\ pc = "delete"
    /\ gl' = DeleteStages(gl, vs, fs)
    /\ shader' = program
    /\ pc' = "glUseProgram"
    /\ UNCHANGED <<program, vs, fs, exitCode, stdout>>
    /\ UNCHANGED <<parseVars, loopVars>>

\* glUseProgram(shader);
UseProgram ==
    /\ pc = "glUseProgram"
    /\ gl' = glUseProgram(gl, shader)
    /\ pc' = "loop"
    /\ UNCHANGED <<exitCode, stdout>>
    /\ UNCHANGED <<parseVars, shaderVars, loopVars>>

\* while (!glfwWindowShouldClose(window)) { glClear(...); GLClearError(); ...
LoopTest ==
    /\ pc = "loop"
    /\ IF shouldClose
       THEN pc' = "shutdown" /\ UNCHANGED entry
       ELSE pc' = "GLClearError" /\ entry' = Enter(gl, stdout)
    /\ UNCHANGED <<shouldClose, frames, exitCode, stdout, gl>>
    /\ UNCHANGED <<parseVars, shaderVars>>

\* GLClearError: one test of while (glGetError() != GL_NO_ERROR);
ClearErrorStep ==
    /\ pc = "GLClearError"
    /\ \E r \in glGetError(gl) :
          /\ gl' = r.gl
          /\ pc' = IF r.ret # GL_NO_ERROR THEN "GLClearError" ELSE "glDrawElements"
    /\ UNCHANGED <<exitCode, stdout>>
    /\ UNCHANGED <<parseVars, shaderVars, loopVars>>

\* glDrawElements(GL_TRIANGLES, 6, GL_INT, nullptr); GLCheckError();
Draw ==
    /\ pc = "glDrawElements"
    /\ gl' = glDrawElements(gl, DrawIndexType)
    /\ entry' = Enter(gl', stdout)
    /\ pc' = "GLCheckError"
    /\ UNCHANGED <<shouldClose, frames, exitCode, stdout>>
    /\ UNCHANGED <<parseVars, shaderVars>>

\* GLCheckError: one test of while (GLenum error = glGetError()), and the
\* print when it is not zero.
CheckErrorStep ==
    /\ pc = "GLCheckError"
    /\ \E r \in glGetError(gl) :
          /\ gl' = r.gl
          /\ IF r.ret # 0
             THEN stdout' = Append(stdout, ErrorLine(r.ret)) /\ pc' = "GLCheckError"
             ELSE stdout' = stdout /\ pc' = "glfwSwapBuffers"
    /\ UNCHANGED exitCode
    /\ UNCHANGED <<parseVars, shaderVars, loopVars>>

\* glfwSwapBuffers(window); glfwPollEvents(); the events may ask for the
\* window to close, and do once MaxFrames frames were drawn.
SwapAndPoll ==
    /\ pc = "glfwSwapBuffers"
    /\ frames' = frames + 1
    /\ \E close \in BOOLEAN : shouldClose' = (close \/ frames' >= MaxFrames)
    /\ pc' = "loop"
    /\ UNCHANGED <<entry, exitCode, stdout, gl>>
    /\ UNCHANGED <<parseVars, shaderVars>>

\* glDeleteProgram(shader); glfwTerminate(); return 0;
Shutdown ==
    /\ pc = "shutdown"
    /\ gl' = glDeleteProgram(gl, shader)
    /\ pc' = "exited"
    /\ exitCode' = 0
    /\ UNCHANGED stdout
    /\ UNCHANGED <<parseVars, shaderVars, loopVars>>

Next ==
    \/ GlfwInit
    \/ GlfwCreateWindow
    \/ Setup
    \/ ParseOpen
    \/ ParseGetline
    \/ CheckSources
    \/ CreateProgram
    \/ CompileVertex
    \/ CompileFragment
    \/ Link
    \/ DeleteAndReturn
    \/ UseProgram
    \/ LoopTest
    \/ ClearErrorStep
    \/ Draw
    \/ CheckErrorStep
    \/ SwapAndPoll
    \/ Shutdown

Spec == Init /\ [][Next]_vars


\* =============================================================== claims
\* What the claims say of the input is stated on the file's lines, read off
\* the text by the positions of its terminators.
NLPositions(text) == { i \in 1..Len(text) : text[i] = NL }

LineCount(text) ==
    Cardinality(NLPositions(text))
        + (IF text # << >> /\ text[Len(text)] # NL THEN 1 ELSE 0)

\* Where line k starts and ends: after the (k-1)th terminator, before the kth.
LineStart(text, k) ==
    IF k = 1 THEN 1
    ELSE 1 + CHOOSE i \in NLPositions(text) :
                 Cardinality({ j \in NLPositions(text) : j <= i }) = k - 1

LineEnd(text, k) ==
    IF k <= Cardinality(NLPositions(text))
    THEN (CHOOSE i \in NLPositions(text) :
              Cardinality({ j \in NLPositions(text) : j <= i }) = k) - 1
    ELSE Len(text)

LinesOf(text) ==
    [k \in 1..LineCount(text) |-> SubSeq(text, LineStart(text, k), LineEnd(text, k))]

\* The lines ParseShader is given: none when the file cannot be opened.
InputLines == IF opened THEN LinesOf(fileText) ELSE << >>

Has(ln, word) == \E i \in DOMAIN ln : ln[i] = word

IsMarkerLine(ln) == Has(ln, "#shader")

IsRecognizedMarker(ln) ==
    Has(ln, "#shader") /\ (Has(ln, "vertex") \/ Has(ln, "fragment"))

\* The section a recognized marker selects (vertex when it names both).
SelectedBy(ln) == IF Has(ln, "vertex") THEN VERTEX ELSE FRAGMENT

\* The section line i lies under: that of the last recognized marker before it.
SectionAt(L, i) ==
    LET before == { j \in 1..(i - 1) : IsRecognizedMarker(L[j]) }
    IN  IF before = {} THEN NONE
        ELSE SelectedBy(L[CHOOSE j \in before : \A k \in before : k <= j])

RECURSIVE SectionText(_, _, _)
SectionText(L, sec, n) ==
    IF n = 0 THEN << >>
    ELSE SectionText(L, sec, n - 1)
             \o (IF ~IsMarkerLine(L[n]) /\ SectionAt(L, n) = sec
                 THEN L[n] \o <<NL>> ELSE << >>)

\* C1: what ParseShader returns as VertexSource (FragmentSource) is the
\* concatenation, in order and each followed by a newline, of the lines without
\* "#shader" that lie under a recognized vertex (fragment) marker; marker lines
\* and the lines before the first recognized marker are in neither.
C1_SplitIsSectionText ==
    pc = "check" =>
        /\ source.VertexSource = SectionText(InputLines, VERTEX, Len(InputLines))
        /\ source.FragmentSource = SectionText(InputLines, FRAGMENT, Len(InputLines))

\* A file with a dropped first line, a marker and a kept line has been split.
C1_Witness ==
    /\ pc = "check"
    /\ Len(InputLines) = MaxLines
    /\ ~IsMarkerLine(InputLines[1])
    /\ InputLines[1] # << >>
    /\ \E i \in 1..Len(InputLines) : IsMarkerLine(InputLines[i]) /\ ~IsRecognizedMarker(InputLines[i])
    /\ source.VertexSource # << >>


\* The text of a split re-wrapped: each buffer under its own marker line.
Rewrap(src) ==
    <<"#shader", " ", "vertex", NL>> \o src.VertexSource
        \o <<"#shader", " ", "fragment", NL>> \o src.FragmentSource

\* C6: splitting the re-wrapped output of a split gives that output again.
C6_ResplitIsIdentity ==
    pc = "check" => ParseShader(TRUE, Rewrap(source)) = source

\* A split whose input was not already in re-wrapped form, both buffers filled.
C6_Witness ==
    /\ pc = "check"
    /\ source.VertexSource # << >>
    /\ source.FragmentSource # << >>
    /\ fileText # Rewrap(source)
    /\ ParseShader(TRUE, Rewrap(source)) = source

\* The input of the example: "#shader vertex", a, "#shader geometry", b.
GeometryExample ==
    << <<"#shader", " ", "vertex">>, <<"a">>, <<"#shader", " ", "geometry">>, <<"b">> >>

\* C7: the current section is NONE when the loop starts, a step changes it only
\* when the line it read has "#shader" and "vertex" or "fragment", and after
\* "#shader vertex", a, "#shader geometry", b the vertex buffer holds a and b.
C7_SectionChangesOnlyOnMarker ==
    [][ /\ (pc = "ParseShader" => type' = NONE)
        /\ (type' # type => pc = "getline" /\ IsRecognizedMarker(line'))
        /\ (pc' = "check" /\ InputLines' = GeometryExample =>
                source'.VertexSource = <<"a", NL, "b", NL>>) ]_vars

\* The loop has read "#shader geometry" inside the vertex section and gone on.
C7_Witness ==
    /\ pc = "check"
    /\ InputLines = GeometryExample
    /\ type = VERTEX

\* The places of main up to and including the source check.
UpToCheck == {"glfwInit", "glfwCreateWindow", "setup", "crashed", "ParseShader", "getline", "check"}

\* C2 as stated: with a vertex source and no fragment source main goes on to
\* CreateShader, and it returns -1 at the source check only when both sources
\* are empty.
C2_OnlyBothEmptyRejected ==
    pc \notin UpToCheck =>
        ((pc = "exited" /\ exitCode = -1)
            <=> (source.VertexSource = << >> /\ source.FragmentSource = << >>))

\* C2 amended: past the source check main has returned -1, with no call made
\* to CreateShader, exactly when at least one of the two sources is empty; a
\* file with only a vertex section is rejected.
C2_EitherEmptyRejected ==
    pc \notin UpToCheck =>
        IF source.VertexSource = << >> \/ source.FragmentSource = << >>
        THEN pc = "exited" /\ exitCode = -1 /\ gl.log = << >>
        ELSE ~(pc = "exited" /\ exitCode = -1)

\* main has returned -1 on a file with a vertex section only.
C2_Witness ==
    /\ pc = "exited"
    /\ exitCode = -1
    /\ source.VertexSource # << >>
    /\ source.FragmentSource = << >>

\* No line of the input has "#shader" (an unopened file has no lines).
NoMarkerLine == ~opened \/ \A i \in 1..Len(fileText) : fileText[i] # "#shader"

\* C3: on an input without any "#shader" line ParseShader returns two empty
\* strings, and main then returns non-zero with no command of CreateShader
\* (create, compile, attach, link) ever issued.
C3_NoMarkerIsFatal ==
    (pc \notin (UpToCheck \ {"check"}) /\ NoMarkerLine) =>
        /\ source.VertexSource = << >>
        /\ source.FragmentSource = << >>
        /\ pc \in {"check", "exited"}
        /\ (pc = "exited" => exitCode # 0)
        /\ gl.log = << >>

\* main has returned on an opened, non-empty file without markers.
C3_Witness ==
    /\ pc = "exited"
    /\ opened
    /\ Len(InputLines) = MaxLines
    /\ NoMarkerLine


\* The log entries that create a shader object, and for the object created at
\* entry i the later glDeleteShader calls on its name made before that name is
\* handed out again.
ShaderCreations(log) == { i \in 1..Len(log) : log[i].op = "glCreateShader" }

Releases(log, i) ==
    { j \in (i + 1)..Len(log) :
        /\ log[j].op = "glDeleteShader"
        /\ log[j].a = log[i].b
        /\ ~\E k \in ShaderCreations(log) : i < k /\ k < j /\ log[k].b = log[i].b }

LastCreation(log) ==
    CHOOSE i \in ShaderCreations(log) : \A k \in ShaderCreations(log) : k <= i

\* What a step that runs CompileShader must do.
CompileReturns ==
    pc \in {"CompileVertex", "CompileFragment"} =>
      LET log    == gl'.log
          k      == LastCreation(log)
          id     == log[k].b
          status == log[k + 3].b
          ret    == IF pc = "CompileVertex" THEN vs' ELSE fs'
          word   == IF pc = "CompileVertex" THEN "vertex" ELSE "fragment"
          given  == IF pc = "CompileVertex" THEN source.VertexSource ELSE source.FragmentSource
      IN  /\ k > Len(gl.log)
          /\ log[k + 1].op = "glShaderSource" /\ log[k + 1].a = id /\ log[k + 1].b = given
          /\ log[k + 3].op = "glGetShaderiv" /\ log[k + 3].a = id
          /\ (ret # 0 <=> status = 1)
          /\ status = 1 =>
                /\ ret = id
                /\ id \in DOMAIN gl'.shaders
                /\ Len(log) = k + 3
                /\ stdout' = stdout
          /\ status # 1 =>
                /\ ret = 0
                /\ Len(log) = k + 4
                /\ log[k + 4].op = "glDeleteShader" /\ log[k + 4].a = id
                /\ id \notin DOMAIN gl'.shaders
                /\ Len(stdout') = Len(stdout) + 2
                /\ SubSeq(stdout', 1, Len(stdout)) = stdout
                /\ Has(stdout'[Len(stdout) + 1], word)
                /\ stdout'[Len(stdout) + 2] # << >>
          /\ pc' = (IF pc = "CompileVertex" THEN "CompileFragment" ELSE "link")

\* C5: a call of CompileShader returns a non-zero id exactly when the driver
\* reports the compile status 1, and then the id of the object it created,
\* still alive, with nothing printed; on status 0 it prints the line naming
\* the stage and the non-empty info log, deletes the object it created,
\* returns 0, and CreateShader goes on.
C5_CompileResult == [][CompileReturns]_vars

\* The fragment stage has failed to compile after the vertex stage compiled.
C5_Witness ==
    /\ pc = "link"
    /\ vs # 0
    /\ fs = 0

\* C8: when CreateShader has returned, both shader objects it created have had
\* glDeleteShader issued on them exactly once, every glDeleteShader call was on
\* one of them or on 0, a failed stage was released inside CompileShader (the
\* later call being on 0), and the driver holds no shader that is not flagged
\* for deletion.
C8_StagesReleasedOnce ==
    pc = "glUseProgram" =>
        LET log == gl.log
            n   == Len(log)
        IN  /\ Cardinality(ShaderCreations(log)) = 2
            /\ \A i \in ShaderCreations(log) : Cardinality(Releases(log, i)) = 1
            /\ \A j \in 1..n :
                  log[j].op = "glDeleteShader" =>
                      \/ log[j].a = 0
                      \/ \E i \in ShaderCreations(log) : j \in Releases(log, i)
            /\ \A i \in ShaderCreations(log) :
                  (log[i + 3].b # 1) => Releases(log, i) = {i + 4}
            /\ log[n - 1].op = "glDeleteShader" /\ log[n - 1].a = vs
            /\ log[n].op = "glDeleteShader" /\ log[n].a = fs
            /\ \A sh \in DOMAIN gl.shaders : gl.shaders[sh].flagged

\* CreateShader has returned after a failed vertex stage and a compiled
\* fragment stage, which got the name of the deleted vertex shader.
C8_Witness ==
    /\ pc = "glUseProgram"
    /\ vs = 0
    /\ fs # 0
    /\ \E i, k \in ShaderCreations(gl.log) : i < k /\ gl.log[i].b = gl.log[k].b

\* The commands one CompileShader call issues when it returns h.
StageOps(h) ==
    <<"glCreateShader", "glShaderSource", "glCompileShader", "glGetShaderiv">>
        \o (IF h = 0 THEN <<"glDeleteShader">> ELSE << >>)

\* C9: whatever the two compile outcomes, CreateShader has issued, in this
\* order, glCreateProgram, the commands of the vertex compile, those of the
\* fragment compile, glAttachShader(program, vs), glAttachShader(program, fs),
\* glLinkProgram, glValidateProgram and the two deletes, and has returned the
\* name glCreateProgram gave.
C9_NoEarlyStop ==
    pc = "glUseProgram" =>
        LET log == gl.log
            a   == 1 + Len(StageOps(vs)) + Len(StageOps(fs))
        IN  /\ [i \in 1..Len(log) |-> log[i].op]
                  = <<"glCreateProgram">> \o StageOps(vs) \o StageOps(fs)
                      \o <<"glAttachShader", "glAttachShader", "glLinkProgram",
                           "glValidateProgram", "glDeleteShader", "glDeleteShader">>
            /\ log[2].a = GL_VERTEX_SHADER
            /\ log[2 + Len(StageOps(vs))].a = GL_FRAGMENT_SHADER
            /\ log[a + 1].a = log[1].b /\ log[a + 1].b = vs
            /\ log[a + 2].a = log[1].b /\ log[a + 2].b = fs
            /\ log[a + 3].a = log[1].b
            /\ log[a + 4].a = log[1].b
            /\ shader = log[1].b
            /\ shader # 0

\* CreateShader has returned after both stages failed to compile.
C9_Witness ==
    /\ pc = "glUseProgram"
    /\ vs = 0
    /\ fs = 0
    /\ shader # 0

\* The places of main inside the render loop.
InLoop == {"loop", "GLClearError", "glDrawElements", "GLCheckError", "glfwSwapBuffers"}

\* Whether a line of the output is one GLCheckError printed.
IsErrorLine(ln) == ln # << >> /\ ln[1] = "[OpenGL Error] (0x"

\* C4: when both stages compiled and the program linked, CreateShader returned
\* a non-zero program, and in every frame no error flag is set after the draw
\* call, so that GLCheckError prints nothing.
C4_DrawRaisesNoError ==
    (/\ pc \in InLoop
     /\ vs # 0 /\ fs # 0
     /\ shader \in DOMAIN gl.programs
     /\ gl.programs[shader].linked) =>
        /\ shader # 0
        /\ (pc = "GLCheckError" => entry.pending = {})
        /\ \A i \in 1..Len(stdout) : ~IsErrorLine(stdout[i])

\* The lines printed since the running GLClearError or GLCheckError call began.
PrintedSinceEntry(out) == SubSeq(out, entry.out + 1, Len(out))

\* What a step inside the render loop must do.
PollStep ==
    /\ (pc \in {"GLClearError", "GLCheckError"} /\ pc' = pc =>
            Cardinality(gl'.errors) < Cardinality(gl.errors))
    /\ (pc = "GLClearError" =>
            /\ pc' \in {"GLClearError", "glDrawElements"}
            /\ stdout' = stdout)
    /\ (pc = "GLClearError" /\ pc' = "glDrawElements" =>
            /\ gl'.errors = {}
            /\ PrintedSinceEntry(stdout') = << >>)
    /\ (pc = "GLCheckError" => pc' \in {"GLCheckError", "glfwSwapBuffers"})
    /\ (pc = "GLCheckError" /\ pc' = "glfwSwapBuffers" =>
            LET printed == PrintedSinceEntry(stdout')
            IN  /\ gl'.errors = {}
                /\ Len(printed) = Cardinality(entry.pending)
                /\ \A e \in entry.pending :
                      Cardinality({ i \in 1..Len(printed) : printed[i] = ErrorLine(e) }) = 1)
    /\ (pc = "glfwSwapBuffers" => pc' = "loop")
    /\ (pc \in InLoop => pc' \in InLoop \cup {"shutdown"})
    /\ (pc' = "shutdown" => pc = "loop" /\ shouldClose)
    /\ (pc \in InLoop => exitCode' = exitCode)

\* C10: each test of GLClearError's or GLCheckError's loop that stays in the
\* loop resets one error flag, so both end; GLClearError ends with no flag set
\* and nothing printed; GLCheckError ends with no flag set and one line for
\* each flag that was set when it began; in the render loop main never
\* returns, and it leaves the loop only when the window is to close.
C10_PollersDrainAndGoOn == [][PollStep]_vars

\* GLClearError has reset two pending flags, the draw has set one, GLCheckError
\* has printed it, and the loop is back at its test.
C10_Witness ==
    /\ pc = "loop"
    /\ frames = 1
    /\ Cardinality(entry.pending) = 1
    /\ gl.errors = {}
    /\ \E i \in 1..Len(gl.log) : gl.log[i].op = "glAttachShader" /\ gl.log[i].b = 0
    /\ ~gl.programs[shader].linked
    /\ IsErrorLine(stdout[Len(stdout)])

=============================================================================
